---- MODULE Spec2Model ----
(***************************************************************************)
(* Model of src/index.js: class ClientInfoGatherer.                        *)
(*                                                                         *)
(* Two specifications share the module:                                    *)
(*   Spec / FairSpec  one page session: the constructor, init, the         *)
(*                    sequential IP-service loop of gatherNetworkInfo, the *)
(*                    battery promise callback and displayInfo;            *)
(*   ClassSpec        the user-agent helpers (getBrowserName ...           *)
(*                    getArchitecture) applied to bounded UA strings.      *)
(*                                                                         *)
(* JavaScript runs every continuation to completion, so each action below  *)
(* is one continuation: the code between two awaits / promise callbacks.   *)
(***************************************************************************)
EXTENDS Integers, Sequences, FiniteSets, TLC

VARIABLES
    pc,         \* position of init(): "load", "fetch", "json", "resolved", "done"
    idx,        \* index in ipServices of the service being tried (0 before the loop)
    pending,    \* the fetch in flight: <<>> or <<[svc, answers]>>
    resp,       \* the Response whose json() is awaited: <<>> or <<response>>
    network,    \* this.data.network: <<>> while unset, else <<record>>
    started,    \* number of calls of gatherNetworkInfo
    requests,   \* requests[i]: number of fetch calls for ipServices[i]
    attempts,   \* history: one record per fetch issued, in order
    battery,    \* navigator.getBattery(): "absent", "idle", "pending", "resolved", "rejected"
    renders,    \* history: one record per displayInfo() call
    ua,         \* the UA value handed to the helpers
    browser,    \* this.data.browser (the parsed fields): <<>> or <<record>>
    system      \* this.data.system (the parsed fields): <<>> or <<record>>

vars == <<pc, idx, pending, resp, network, started, requests, attempts,
          battery, renders, ua, browser, system>>

netVars == <<pc, idx, pending, resp, network, started, requests, attempts,
             battery, renders>>

(***************************************************************************)
(* JavaScript values                                                       *)
(***************************************************************************)
\* the value `undefined` (an absent property)
Undefined == "undefined"

\* JavaScript truthiness of a string-or-undefined value
Truthy(v) == v # Undefined /\ v # ""

(***************************************************************************)
(* gatherNetworkInfo: configuration and the environment's answers          *)
(***************************************************************************)
ipServices ==
    << "https://api.ipify.org?format=json",
       "https://httpbin.org/ip",
       "https://api.myip.com",
       "https://ipapi.co/json/" >>

NumServices == Len(ipServices)

\* Enrichment fields a service may send along (country, city, region, org, as).
Enrichments ==
    { [country |-> Undefined, city |-> Undefined, region |-> Undefined,
       org |-> Undefined, as |-> Undefined],
      [country |-> "IT", city |-> Undefined, region |-> Undefined,
       org |-> Undefined, as |-> Undefined],
      [country |-> "IT", city |-> "Rome", region |-> "Lazio",
       org |-> "ExampleNet", as |-> "AS64500"] }

\* The value response.json() resolves to when the body is a JSON object.
JsonObjects ==
    { [json |-> "object", ip |-> i, origin |-> o, query |-> q,
       country |-> e.country, city |-> e.city, region |-> e.region,
       org |-> e.org, as |-> e.as] :
         i \in {Undefined, "", "198.51.100.7"},
         o \in {Undefined, "203.0.113.5"},
         q \in {Undefined, "192.0.2.9"},
         e \in Enrichments }

\* A body that is no JSON ("malformed"), the JSON value null, a JSON scalar.
OtherBody(k) ==
    [json |-> k, ip |-> Undefined, origin |-> Undefined, query |-> Undefined,
     country |-> Undefined, city |-> Undefined, region |-> Undefined,
     org |-> Undefined, as |-> Undefined]

Bodies == JsonObjects \cup { OtherBody(k) : k \in {"malformed", "null", "scalar"} }

\* HTTP statuses the services answer with: a success and a non-success one.
Statuses == {200, 503}

\* What a settled fetch() delivers: a Response for ANY HTTP status.
Responses == [kind : {"response"}, status : Statuses, body : Bodies]

\* The attempt record of a fetch that rejected (network error, CORS).
Rejected == [kind |-> "reject", status |-> 0, body |-> OtherBody("malformed")]

\* The attempt record of a fetch that has not settled yet.
NoAnswer == [kind |-> "pending", status |-> 0, body |-> OtherBody("malformed")]

(***************************************************************************)
(* gatherNetworkInfo: the loop body, lines 184-206                         *)
(***************************************************************************)
\* Variant of publicIP with the priority of ip and origin swapped.
publicIPFirstOrigin(data) ==
    IF Truthy(data.origin) THEN data.origin
    ELSE IF Truthy(data.ip) THEN data.ip
    ELSE IF Truthy(data.query) THEN data.query
    ELSE "Unable to determine"

\* data.ip || data.origin || data.query || 'Unable to determine'
publicIP(data) ==
    IF Truthy(data.ip) THEN data.ip
    ELSE IF Truthy(data.origin) THEN data.origin
    ELSE IF Truthy(data.query) THEN data.query
    ELSE "Unable to determine"

\* if (data.x) this.data.network.y = data.x
CopyIfTruthy(v) == IF Truthy(v) THEN v ELSE Undefined

\* The record assigned to this.data.network at lines 189-200.
NetworkRecord(service, data) ==
    [publicIP |-> publicIP(data),
     ipService |-> service,
     error |-> Undefined,
     country |-> CopyIfTruthy(data.country),
     city |-> CopyIfTruthy(data.city),
     region |-> CopyIfTruthy(data.region),
     organization |-> CopyIfTruthy(data.org),
     autonomous_system |-> CopyIfTruthy(data.as)]

\* Whether lines 187-190 throw for a Response: response.json() rejects on a
\* body that is no JSON, and data.ip throws a TypeError when data is null.
\* The HTTP status is never read (no response.ok test).
JsonThrows(r) == r.body.json \in {"malformed", "null"}

\* The record assigned at lines 210-213 when no service set data.network.
FailureMarker ==
    [publicIP |-> "Unable to determine (CORS/Network restrictions)",
     ipService |-> Undefined,
     error |-> "All IP services failed",
     country |-> Undefined, city |-> Undefined, region |-> Undefined,
     organization |-> Undefined, autonomous_system |-> Undefined]

\* Variant of NextIndex without the `break` of line 202.
NextIndexNoBreak(i, success) == i + 1

\* Variant of NextIndex that starts over after the last service failed.
NextIndexWrap(i, success) ==
    IF success THEN 0 ELSE IF i = NumServices THEN 1 ELSE i + 1

\* Loop control: `break` after a success (0: leave the loop), `continue`
\* after a caught exception (the next index, past the end: leave the loop).
NextIndex(i, success) == IF success THEN 0 ELSE i + 1

\* Variant of AfterLoop without the `!this.data.network` test of line 209.
AfterLoopAlwaysMarker(net) == <<FailureMarker>>

\* if (!this.data.network) this.data.network = { ...failure marker }
AfterLoop(net) == IF net = <<>> THEN <<FailureMarker>> ELSE net

\* await fetch(service): one request goes out; the environment decides
\* whether this service ever answers (fetch is called without any timeout
\* or AbortSignal, so a silent service leaves the promise pending).
\* `log` is the attempts history the new attempt is appended to.
IssueFetch(i, log) ==
    /\ idx' = i
    /\ requests' = [requests EXCEPT ![i] = @ + 1]
    /\ attempts' = Append(log, [svc |-> i, resp |-> NoAnswer, result |-> "pending"])
    /\ \E a \in BOOLEAN : pending' = <<[svc |-> i, answers |-> a]>>

\* The attempts history with the current attempt's answer and result filled in.
Logged(r, res) ==
    [attempts EXCEPT ![Len(attempts)] = [svc |-> @.svc, resp |-> r, result |-> res]]

\* The end of one loop iteration for service i: success stores the record
\* and breaks, an exception is caught and the loop continues; after the
\* loop the failure marker is stored if nothing was.
EndIteration(i, r, success) ==
    LET net == IF success THEN <<NetworkRecord(ipServices[i], r.body)>> ELSE network
        n   == NextIndex(i, success)
        log == Logged(r, IF success THEN "ok" ELSE "failed")
    IN  /\ resp' = <<>>
        /\ IF n \in 1..NumServices
           THEN /\ IssueFetch(n, log)
                /\ network' = net
                /\ pc' = "fetch"
           ELSE /\ idx' = idx
                /\ requests' = requests
                /\ pending' = <<>>
                /\ attempts' = log
                /\ network' = AfterLoop(net)
                /\ pc' = "resolved"

(***************************************************************************)
(* displayInfo, lines 349-375 and 483-486                                  *)
(***************************************************************************)
\* displayNetworkInfo: the "Loading..." placeholder while data.network is
\* unset, else the items, of which the public IP line is kept here.
displayNetworkInfo(net) == IF net = <<>> THEN "Loading..." ELSE net[1].publicIP

\* displayInfo(): what one render shows of the network part of this.data.
\* `at` records where init() stood when the render ran.
displayInfo(by) ==
    [by |-> by, at |-> pc,
     networkInfo |-> displayNetworkInfo(network), rawData |-> network]

\* Variant of GatherAwaited for a call without `await` at line 19.
GatherNotAwaited(p) == p \in {"fetch", "json", "resolved"}

\* init line 19: `await this.gatherNetworkInfo()` lets line 22 run only once
\* gatherNetworkInfo has returned.
GatherAwaited(p) == p = "resolved"

(***************************************************************************)
(* String primitives the helpers use                                       *)
(***************************************************************************)
\* ua.includes(p): p occurs in s as a substring
Includes(s, p) ==
    \E i \in 1..(Len(s) - Len(p) + 1) : SubSeq(s, i, i + Len(p) - 1) = p

\* p occurs in s at position i
OccursAt(s, p, i) ==
    /\ i >= 1
    /\ i + Len(p) - 1 <= Len(s)
    /\ SubSeq(s, i, i + Len(p) - 1) = p

\* the regular expression class \d
IsDigit(c) == c \in {"0", "1", "2", "3", "4", "5", "6", "7", "8", "9"}

\* the position after the longest run of digits of s that starts at i
RECURSIVE DigitsEnd(_, _)
DigitsEnd(s, i) ==
    IF i <= Len(s) /\ IsDigit(SubSeq(s, i, i)) THEN DigitsEnd(s, i + 1) ELSE i

\* \d+ (sep \d+)* anchored at i, one separator class per element of seps:
\* the position after the match, 0 when there is none.  \d+ is greedy and
\* a shorter run is followed by a digit, never by a separator, so the
\* longest run decides.
RECURSIVE MatchNumber(_, _, _)
MatchNumber(s, i, seps) ==
    LET e == DigitsEnd(s, i)
    IN  IF e = i THEN 0
        ELSE IF seps = <<>> THEN e
        ELSE IF e <= Len(s) /\ SubSeq(s, e, e) \in Head(seps)
             THEN MatchNumber(s, e + 1, Tail(seps))
             ELSE 0

\* ua.match(/(?:l1|l2)(<number>)/): <<>> for null, else <<the capture>> of
\* the leftmost match.
Match(s, lits, seps) ==
    LET hits == { i \in 1..Len(s) :
                    \E l \in lits : /\ OccursAt(s, l, i)
                                    /\ MatchNumber(s, i + Len(l), seps) # 0 }
    IN  IF hits = {} THEN <<>>
        ELSE LET i == CHOOSE h \in hits : \A g \in hits : h <= g
                 l == CHOOSE k \in lits : OccursAt(s, k, i)
             IN  << SubSeq(s, i + Len(l), MatchNumber(s, i + Len(l), seps) - 1) >>

\* str.replace(/_/g, '.')
RECURSIVE ReplaceUnderscores(_)
ReplaceUnderscores(s) ==
    IF s = "" THEN ""
    ELSE (IF SubSeq(s, 1, 1) = "_" THEN "." ELSE SubSeq(s, 1, 1))
         \o ReplaceUnderscores(SubSeq(s, 2, Len(s)))

\* match ? match[1] : 'Unknown'
CaptureOrUnknown(m) == IF m = <<>> THEN "Unknown" ELSE m[1]

(***************************************************************************)
(* The user-agent helpers, lines 224-322.  A UA value is <<>> for an       *)
(* absent one (undefined / null) and <<s>> for the string s; reading       *)
(* .includes or .match of an absent value throws a TypeError.              *)
(***************************************************************************)
TypeError == "TypeError (thrown)"

Dot == <<{"."}>>

\* Variant of getBrowserName that tests Safari before Chrome.
getBrowserNameSafariFirst(u) ==
    IF u = <<>> THEN TypeError
    ELSE LET s == u[1]
         IN  IF Includes(s, "Firefox") THEN "Firefox"
             ELSE IF Includes(s, "Safari") THEN "Safari"
             ELSE IF Includes(s, "Chrome") /\ ~Includes(s, "Chromium") THEN "Chrome"
             ELSE IF Includes(s, "Chromium") THEN "Chromium"
             ELSE IF Includes(s, "Edge") THEN "Edge"
             ELSE IF Includes(s, "Opera") \/ Includes(s, "OPR") THEN "Opera"
             ELSE IF Includes(s, "Trident") THEN "Internet Explorer"
             ELSE "Unknown"

\* lines 224-233
getBrowserName(u) ==
    IF u = <<>> THEN TypeError
    ELSE LET s == u[1]
         IN  IF Includes(s, "Firefox") THEN "Firefox"
             ELSE IF Includes(s, "Chrome") /\ ~Includes(s, "Chromium") THEN "Chrome"
             ELSE IF Includes(s, "Chromium") THEN "Chromium"
             ELSE IF Includes(s, "Safari") /\ ~Includes(s, "Chrome") THEN "Safari"
             ELSE IF Includes(s, "Edge") THEN "Edge"
             ELSE IF Includes(s, "Opera") \/ Includes(s, "OPR") THEN "Opera"
             ELSE IF Includes(s, "Trident") THEN "Internet Explorer"
             ELSE "Unknown"

getBrowserVersion(u) ==
    LET browserName == getBrowserName(u)
    IN  IF browserName = TypeError THEN TypeError
        ELSE LET s == u[1]
             IN  CASE browserName = "Chrome"  -> CaptureOrUnknown(Match(s, {"Chrome/"}, Dot))
                   [] browserName = "Firefox" -> CaptureOrUnknown(Match(s, {"Firefox/"}, Dot))
                   [] browserName = "Safari"  -> CaptureOrUnknown(Match(s, {"Version/"}, Dot))
                   [] browserName = "Edge"    -> CaptureOrUnknown(Match(s, {"Edge/"}, Dot))
                   [] browserName = "Opera"   -> CaptureOrUnknown(Match(s, {"Opera/", "OPR/"}, Dot))
                   [] OTHER -> "Unknown"

getEngineName(u) ==
    IF u = <<>> THEN TypeError
    ELSE LET s == u[1]
         IN  IF Includes(s, "Blink") THEN "Blink"
             ELSE IF Includes(s, "WebKit") THEN "WebKit"
             ELSE IF Includes(s, "Gecko") THEN "Gecko"
             ELSE IF Includes(s, "Trident") THEN "Trident"
             ELSE IF Includes(s, "EdgeHTML") THEN "EdgeHTML"
             ELSE "Unknown"

getEngineVersion(u) ==
    IF u = <<>> THEN TypeError
    ELSE LET s  == u[1]
             m1 == Match(s, {"WebKit/"}, Dot)
             m2 == Match(s, {"Gecko/"}, <<>>)
         IN  IF m1 # <<>> THEN m1[1]
             ELSE IF m2 # <<>> THEN m2[1]
             ELSE "Unknown"

getOperatingSystem(u) ==
    IF u = <<>> THEN TypeError
    ELSE LET s == u[1]
         IN  IF Includes(s, "Windows NT 10.0") THEN "Windows 10/11"
             ELSE IF Includes(s, "Windows NT 6.3") THEN "Windows 8.1"
             ELSE IF Includes(s, "Windows NT 6.2") THEN "Windows 8"
             ELSE IF Includes(s, "Windows NT 6.1") THEN "Windows 7"
             ELSE IF Includes(s, "Windows") THEN "Windows"
             ELSE IF Includes(s, "Mac OS X") THEN "macOS"
             ELSE IF Includes(s, "Linux") THEN "Linux"
             ELSE IF Includes(s, "Android") THEN "Android"
             ELSE IF Includes(s, "iOS") THEN "iOS"
             ELSE IF Includes(s, "iPad") THEN "iPadOS"
             ELSE "Unknown"

getOSVersion(u) ==
    IF u = <<>> THEN TypeError
    ELSE LET s  == u[1]
             w  == Match(s, {"Windows NT "}, Dot)
             m  == Match(s, {"Mac OS X "}, <<{".", "_"}, {".", "_"}>>)
             a  == Match(s, {"Android "}, Dot)
             o  == Match(s, {"OS "}, <<{"_"}>>)
         IN  IF w # <<>> THEN w[1]
             ELSE IF m # <<>> THEN ReplaceUnderscores(m[1])
             ELSE IF a # <<>> THEN a[1]
             ELSE IF o # <<>> THEN ReplaceUnderscores(o[1])
             ELSE "Unknown"

getArchitecture(u) ==
    IF u = <<>> THEN TypeError
    ELSE LET s == u[1]
         IN  IF Includes(s, "WOW64") \/ Includes(s, "Win64") \/ Includes(s, "x86_64")
             THEN "64-bit"
             ELSE IF Includes(s, "ARM") THEN "ARM"
             ELSE IF Includes(s, "x86") THEN "32-bit"
             ELSE "Unknown"

\* The parsed fields of this.data.browser, lines 44-47.
gatherBrowserInfo(u) ==
    [browserName |-> getBrowserName(u),
     browserVersion |-> getBrowserVersion(u),
     engineName |-> getEngineName(u),
     engineVersion |-> getEngineVersion(u)]

\* The parsed fields of this.data.system, lines 57-59.
gatherSystemInfo(u) ==
    [operatingSystem |-> getOperatingSystem(u),
     osVersion |-> getOSVersion(u),
     architecture |-> getArchitecture(u)]

(***************************************************************************)
(* Inputs                                                                  *)
(***************************************************************************)
\* UA strings are built from at most MaxPieces of these fragments.
MaxPieces == 2

UAPieces ==
    { "(Linux; ", "Android 13.0", "Android 4.4 ", "Windows NT 10.0; Win64",
      "Mac OS X 10_15_7", "iPad; CPU OS 16_1",
      "Firefox/119.0", "Chrome/120.0", "Chrome/120.05", "Chrome/99.1 ",
      "Chromium/120.0", "Chrome/120.0 Safari/537.36", "Version/17.2 Safari/605.1",
      " Edge/18.1", " OPR/106.0", " AppleWebKit/537.36",
      "Gecko/20100101", "Trident/7.0", "ARM", "x86", "zz" }

RECURSIVE UAStrings(_)
UAStrings(n) ==
    IF n = 0 THEN {""}
    ELSE LET shorter == UAStrings(n - 1)
         IN  shorter \cup { s \o q : s \in shorter, q \in UAPieces }

\* The values the helpers are applied to: any bounded string, or none.
UAValues == {<<>>} \cup { <<s>> : s \in UAStrings(MaxPieces) }

\* navigator.userAgent of the page session: always a string.
SessionUAs ==
    { <<"Mozilla/5.0 (Linux; Android 13.0) AppleWebKit/537.36 Chrome/120.0 Safari/537.36">>,
      <<"">> }

(***************************************************************************)
(* One page session                                                        *)
(***************************************************************************)
Init ==
    /\ pc = "load"
    /\ idx = 0
    /\ pending = <<>>
    /\ resp = <<>>
    /\ network = <<>>
    /\ started = 0
    /\ requests = [i \in 1..NumServices |-> 0]
    /\ attempts = <<>>
    /\ battery \in {"absent", "idle"}
    /\ renders = <<>>
    /\ ua \in SessionUAs
    /\ browser = <<>>
    /\ system = <<>>

\* DOMContentLoaded -> new ClientInfoGatherer() -> init() up to its first
\* await: the synchronous gather* calls, getBattery().then(...) when the
\* API exists, and gatherNetworkInfo up to `await fetch(ipServices[0])`.
Construct ==
    /\ pc = "load"
    /\ browser' = <<gatherBrowserInfo(ua)>>
    /\ system' = <<gatherSystemInfo(ua)>>
    /\ battery' = IF battery = "idle" THEN "pending" ELSE battery
    /\ started' = started + 1
    /\ IssueFetch(1, attempts)
    /\ pc' = "fetch"
    /\ UNCHANGED <<resp, network, renders, ua>>

\* fetch(service) rejects (network error, CORS): caught at line 203.
FetchReject ==
    /\ pc = "fetch"
    /\ pending # <<>> /\ pending[1].answers
    /\ EndIteration(idx, Rejected, FALSE)
    /\ UNCHANGED <<started, battery, renders, ua, browser, system>>

\* fetch(service) resolves with a Response, whatever its status; line 187
\* then awaits response.json().
FetchResolve ==
    /\ pc = "fetch"
    /\ pending # <<>> /\ pending[1].answers
    /\ \E r \in Responses : resp' = <<r>>
    /\ pending' = <<>>
    /\ pc' = "json"
    /\ UNCHANGED <<idx, network, started, requests, attempts, battery, renders,
                   ua, browser, system>>

\* response.json() settles: lines 187-205 run to the break or the catch,
\* and on leaving the loop lines 208-214 and the return.
JsonSettle ==
    /\ pc = "json"
    /\ EndIteration(idx, resp[1], ~JsonThrows(resp[1]))
    /\ UNCHANGED <<started, battery, renders, ua, browser, system>>

\* init resumes after `await this.gatherNetworkInfo()`: line 22.
InitResume ==
    /\ GatherAwaited(pc)
    /\ renders' = Append(renders, displayInfo("init"))
    /\ pc' = "done"
    /\ UNCHANGED <<idx, pending, resp, network, started, requests, attempts,
                   battery, ua, browser, system>>

\* The getBattery() promise resolves: lines 93-101 store the battery data
\* and call displayInfo().
BatteryResolve ==
    /\ battery = "pending"
    /\ battery' = "resolved"
    /\ renders' = Append(renders, displayInfo("battery"))
    /\ UNCHANGED <<pc, idx, pending, resp, network, started, requests, attempts,
                   ua, browser, system>>

\* The getBattery() promise rejects: no handler is attached, nothing runs.
BatteryReject ==
    /\ battery = "pending"
    /\ battery' = "rejected"
    /\ UNCHANGED <<pc, idx, pending, resp, network, started, requests, attempts,
                   renders, ua, browser, system>>

Next ==
    \/ Construct
    \/ FetchReject
    \/ FetchResolve
    \/ JsonSettle
    \/ InitResume
    \/ BatteryResolve
    \/ BatteryReject

Spec == Init /\ [][Next]_vars

\* Every enabled continuation is eventually run by the event loop, and a
\* service that answers does so eventually.  A service that never answers
\* enables nothing: the code arms no timer for it.
FairSpec == Spec /\ WF_vars(Next)

(***************************************************************************)
(* The helpers applied to bounded inputs                                   *)
(***************************************************************************)
ClassInit ==
    /\ pc = "classify"
    /\ idx = 0
    /\ pending = <<>>
    /\ resp = <<>>
    /\ network = <<>>
    /\ started = 0
    /\ requests = [i \in 1..NumServices |-> 0]
    /\ attempts = <<>>
    /\ battery = "absent"
    /\ renders = <<>>
    /\ ua \in UAValues
    /\ browser = <<>>
    /\ system = <<>>

\* getBrowserName, getBrowserVersion, getEngineName, getEngineVersion
ParseBrowser ==
    /\ pc = "classify"
    /\ browser = <<>>
    /\ browser' = <<gatherBrowserInfo(ua)>>
    /\ UNCHANGED <<netVars, ua, system>>

\* getOperatingSystem, getOSVersion, getArchitecture
ParseSystem ==
    /\ pc = "classify"
    /\ system = <<>>
    /\ system' = <<gatherSystemInfo(ua)>>
    /\ UNCHANGED <<netVars, ua, browser>>

ClassNext == ParseBrowser \/ ParseSystem

ClassSpec == ClassInit /\ [][ClassNext]_vars

(***************************************************************************)
(* Properties of gatherNetworkInfo (Spec, FairSpec)                        *)
(***************************************************************************)
IPValues == {"198.51.100.7", "203.0.113.5", "192.0.2.9"}

HasSuccess == network # <<>> /\ network[1].ipService # Undefined

AllFailed ==
    /\ Len(attempts) = NumServices
    /\ \A k \in 1..NumServices : attempts[k].result = "failed"

\* C1: the services are requested in list order, one at a time; every
\* attempt before the last one issued has failed, so nothing is requested
\* after a successful service; and the recorded ipService is the URL of
\* the one successful service, which is the last one requested.
C1_FirstSuccessWins ==
    /\ \A k \in 1..Len(attempts) : attempts[k].svc = k /\ requests[k] = 1
    /\ \A k \in 1..NumServices : k > Len(attempts) => requests[k] = 0
    /\ \A k \in 1..(Len(attempts) - 1) : attempts[k].result = "failed"
    /\ HasSuccess =>
         /\ attempts[Len(attempts)].result = "ok"
         /\ network[1].ipService = ipServices[Len(attempts)]
    /\ \A k \in 1..Len(attempts) :
         attempts[k].result = "ok" =>
            /\ HasSuccess
            /\ network[1].ipService = ipServices[k]

\* C1 witness: entry 1 rejected, entry 2 answered { "origin": "203.0.113.5" },
\* entries 3 and 4 were never requested.
C1_Witness ==
    /\ pc = "done"
    /\ Len(attempts) = 2
    /\ attempts[1].resp.kind = "reject"
    /\ attempts[2].resp.body.ip = Undefined
    /\ HasSuccess
    /\ network[1].ipService = ipServices[2]
    /\ network[1].publicIP = "203.0.113.5"
    /\ network[1].country = Undefined
    /\ requests[3] = 0 /\ requests[4] = 0

FailedAnswer(a) ==
    \/ a.resp.kind = "reject"
    \/ a.resp.kind = "response" /\ a.resp.status # 200
    \/ a.resp.kind = "response" /\ a.resp.body.json = "malformed"

\* C3 (as claimed): an attempt that ended in a network error, a non-success
\* status or a malformed body did not set data.network and the loop went
\* on; only a valid response ended the iteration.
C3_FailureContinues ==
    \A k \in 1..Len(attempts) :
        (attempts[k].result # "pending" /\ FailedAnswer(attempts[k])) =>
            /\ attempts[k].result = "failed"
            /\ ~(HasSuccess /\ network[1].ipService = ipServices[attempts[k].svc])

\* the first of ip, origin, query that is present in a response body
FirstPresent(d) ==
    IF d.ip # Undefined THEN d.ip
    ELSE IF d.origin # Undefined THEN d.origin
    ELSE d.query

C5_EventuallyResolved == <>(network # <<>>)

\* C6 (as claimed): every displayInfo() ran after gatherNetworkInfo had
\* returned, with data.network set.
C6_NoRenderBeforeResolved ==
    \A k \in 1..Len(renders) :
        /\ renders[k].at \in {"resolved", "done"}
        /\ renders[k].rawData # <<>>

\* C6 (amended): the displayInfo() called by init ran after gatherNetworkInfo
\* had returned, with data.network set; a render that ran earlier is the
\* battery callback's, and it shows "Loading..." and no network values.
C6_InitRenderAfterResolved ==
    \A k \in 1..Len(renders) :
        /\ renders[k].by = "init" =>
              /\ renders[k].at = "resolved"
              /\ renders[k].rawData # <<>>
              /\ renders[k].networkInfo # "Loading..."
        /\ renders[k].rawData = <<>> =>
              /\ renders[k].by = "battery"
              /\ renders[k].at \in {"fetch", "json"}
              /\ renders[k].networkInfo = "Loading..."

\* C6 witness: the battery callback rendered while a fetch was in flight,
\* then init rendered the resolved record.
C6_Witness ==
    /\ Len(renders) = 2
    /\ renders[1].by = "battery" /\ renders[1].at = "fetch"
    /\ renders[1].networkInfo = "Loading..."
    /\ renders[2].by = "init" /\ renders[2].rawData # <<>>

\* C7: gatherNetworkInfo is started exactly once, each service receives at
\* most one request, and once data.network is set no step changes it,
\* issues a request or starts gatherNetworkInfo again.
C7_SingleFetchPerSession ==
    /\ [](pc # "load" => started = 1)
    /\ [](\A i \in 1..NumServices : requests[i] <= 1)
    /\ [][network # <<>> =>
            /\ network' = network
            /\ requests' = requests
            /\ started' = started
            /\ pending' = <<>>]_vars

\* C7 witness: data.network was set, init rendered it and the battery
\* callback rendered it again; one request had gone to each of two services.
C7_Witness ==
    /\ Len(renders) = 2
    /\ renders[1].by = "init"
    /\ renders[2].by = "battery" /\ renders[2].rawData = network
    /\ network # <<>>
    /\ started = 1
    /\ requests = [i \in 1..NumServices |-> IF i <= 2 THEN 1 ELSE 0]

(***************************************************************************)
(* Properties of the user-agent helpers (ClassSpec)                        *)
(***************************************************************************)
\* the UA is a string holding "Chrome/120.0" and none of the tokens C8 excludes
ChromeUA ==
    /\ ua # <<>>
    /\ Includes(ua[1], "Chrome/120.0")
    /\ ~Includes(ua[1], "Chromium")
    /\ ~Includes(ua[1], "Edge")
    /\ ~Includes(ua[1], "OPR")
    /\ ~Includes(ua[1], "Opera")

\* the first "Chrome/" of s is the one of "Chrome/120.0", and no digit
\* follows that "120.0"
FirstChromeIs120(s) ==
    \E i \in 1..Len(s) :
        /\ OccursAt(s, "Chrome/120.0", i)
        /\ \A j \in 1..(i - 1) : ~OccursAt(s, "Chrome/", j)
        /\ ~(i + Len("Chrome/120.0") <= Len(s)
             /\ IsDigit(SubSeq(s, i + Len("Chrome/120.0"), i + Len("Chrome/120.0"))))

\* C8 (as claimed): a UA with "Chrome/120.0" and none of "Chromium", "Edge",
\* "OPR", "Opera" is named Chrome with version "120.0".
C8_Chrome120 ==
    (browser # <<>> /\ ChromeUA) =>
        /\ browser[1].browserName = "Chrome"
        /\ browser[1].browserVersion = "120.0"

\* C8 (amended): such a UA that does not contain "Firefox" either is named
\* Chrome, with or without "Safari"; its version is "120.0" when the first
\* "Chrome/" of the UA is the one of "Chrome/120.0" and no digit follows it.
C8_Chrome120NoFirefox ==
    (browser # <<>> /\ ChromeUA /\ ~Includes(ua[1], "Firefox")) =>
        /\ browser[1].browserName = "Chrome"
        /\ FirstChromeIs120(ua[1]) => browser[1].browserVersion = "120.0"

\* C8 witness: a UA with both "Chrome/120.0" and "Safari", parsed as Chrome 120.0.
C8_Witness ==
    /\ browser # <<>>
    /\ ChromeUA
    /\ Includes(ua[1], "Safari")
    /\ browser[1].browserName = "Chrome"
    /\ browser[1].browserVersion = "120.0"

\* C9 (as claimed): a UA with "Android 13.0" has OS Android, version "13.0".
C9_Android13 ==
    (system # <<>> /\ ua # <<>> /\ Includes(ua[1], "Android 13.0")) =>
        /\ system[1].operatingSystem = "Android"
        /\ system[1].osVersion = "13.0"

\* C10 (as claimed): for the empty string, an absent UA value and a string
\* without any known token, every helper returns 'Unknown'.
C10_NeverRaises ==
    (ua = <<>> \/ ua = <<"">> \/ ua = <<"zz">>) =>
        /\ browser # <<>> =>
             /\ browser[1].browserName = "Unknown"
             /\ browser[1].browserVersion = "Unknown"
             /\ browser[1].engineName = "Unknown"
             /\ browser[1].engineVersion = "Unknown"
        /\ system # <<>> =>
             /\ system[1].operatingSystem = "Unknown"
             /\ system[1].osVersion = "Unknown"
             /\ system[1].architecture = "Unknown"

\* C11 (as claimed): a UA with "Edge" and without "Firefox" and "Chromium"
\* is named Edge, also when it holds "Chrome" and "Safari", and its version
\* is the number captured after "Edge/".
C11_EdgeLegacy ==
    (browser # <<>> /\ ua # <<>>
       /\ Includes(ua[1], "Edge")
       /\ ~Includes(ua[1], "Firefox")
       /\ ~Includes(ua[1], "Chromium")) =>
        /\ browser[1].browserName = "Edge"
        /\ browser[1].browserVersion = CaptureOrUnknown(Match(ua[1], {"Edge/"}, Dot))

====
